---- MODULE Spec2Model ----
(***************************************************************************)
(* A model of bread-backup: the exclude-pattern matcher, the config        *)
(* collector and restorer, the manifest layer and the backup / restore     *)
(* orchestrators.  Strings are sequences of one-character strings.         *)
(***************************************************************************)
EXTENDS Integers, Sequences, FiniteSets, TLC

VARIABLES
    given,      \* the pattern strings handed to ExcludePatternMatcher so far
    patterns,   \* self.patterns: sequence of [is_negation, regex]
    path,       \* the argument of the last should_exclude call
    answered,   \* whether should_exclude has been called on these rules
    excluded,   \* what that call returned
    \* --- a written backup, as verify_checksums and verify() see it
    checksums,  \* manifest.checksums: sequence of [file, sum], in dict order
    tree,       \* the payload files of the backup: content, "absent" or "dir"
    container,  \* the .bread file: "ok", "corrupt" (not a tar) or "missing"
    manifest_member, \* its manifest.json member: "ok", "absent" or "undecodable"
    vcall,      \* the last verification call: [op, result, hashed]
    \* --- FilePermissionManager.restore_permissions on one path
    porig,      \* the attributes of the file the metadata was captured from
    pvia,       \* whether the record went through to_dict / from_dict
    pmeta,      \* the FileMetadata being restored
    pfile,      \* the attributes of the file at file_path
    syscalls,   \* the system calls the last restore_permissions issued
    pres,       \* "none", "returned" or "raised"
    pouts,      \* how chown, chmod and utime answered in that call
    \* --- the manifest record on disk and MetadataManager.load_metadata
    msaved,     \* the BackupMetadata object of the run
    mrecord,    \* manifest.json: [state, data], data the decoded JSON object
    mloaded,    \* the last load: [status, manifest]
    \* --- one backup run (BackupOrchestrator.execute) and one restore of
    \* --- its result (RestoreOrchestrator.execute)
    opts,       \* the backup options: include_packages, include_config, exclude_lines
    config_exists, \* whether ~/.config exists
    src,        \* the files below ~/.config: SrcFiles -> SrcStates
    bpc,        \* where execute() of the backup stands
    failure,    \* the step whose exception ended the backup, or "none"
    temp,       \* the bread-backup- directory: "none", "exists" or "removed"
    metadata,   \* the BackupMetadata object of the run
    work,       \* the content of the backup's temporary directory
    col,        \* the locals of ConfigCollector.collect
    archive,    \* the archive written next to the temporary directory
    dest,       \* the destination directory: [dir, state, content]
    ropts,      \* the restore options
    rpc,        \* where execute() of the restore stands
    rtemp,      \* the bread-restore- directory: "none", "exists" or "removed"
    extracted,  \* the content of the restore's temporary directory
    rmeta,      \* the manifest the restore loaded
    target,     \* the paths that exist below the home directory restored into
    perm_calls, \* the paths restore_permissions was called on
    pkg_cmds,   \* the commands PackageRestorer ran, in order
    rfailure,   \* the step whose exception ended the restore, or "none"
    rstats,     \* which phases ran and what the restorers returned
    \* LocalStorage.cleanup_old_backups
    bdir,       \* the *.bread entries of the destination directory
    bcall       \* the call: [state, keep_count, before, failed, deleted]

matcherVars == <<given, patterns, path, answered, excluded>>

verifyVars == <<checksums, tree, container, manifest_member, vcall>>

permVars == <<porig, pvia, pmeta, pfile, syscalls, pres, pouts>>

manifestVars == <<msaved, mrecord, mloaded>>

backupVars ==
    <<opts, config_exists, src, bpc, failure, temp, metadata, work, col, archive, dest>>

restoreVars ==
    <<ropts, rpc, rtemp, extracted, rmeta, target, perm_calls, pkg_cmds, rfailure,
      rstats>>

runVars == <<backupVars, restoreVars>>

storeVars == <<bdir, bcall>>

vars == <<matcherVars, verifyVars, permVars, manifestVars, runVars, storeVars>>

(***************************************************************************)
(* Bounds                                                                  *)
(***************************************************************************)
MaxPatterns == 2

\* the most entries a manifest's checksums mapping holds
MaxListed == 2

(***************************************************************************)
(* String helpers (str.strip, str.startswith, str.endswith, str.replace)   *)
(***************************************************************************)
StartsWith(s, p) == Len(s) >= Len(p) /\ SubSeq(s, 1, Len(p)) = p

EndsWith(s, p) == Len(s) >= Len(p) /\ SubSeq(s, Len(s) - Len(p) + 1, Len(s)) = p

RECURSIVE LStrip(_)
LStrip(s) == IF s # <<>> /\ Head(s) = " " THEN LStrip(Tail(s)) ELSE s

RECURSIVE RStrip(_)
RStrip(s) ==
    IF s # <<>> /\ s[Len(s)] = " " THEN RStrip(SubSeq(s, 1, Len(s) - 1)) ELSE s

Strip(s) == RStrip(LStrip(s))

\* str.replace: left to right, non-overlapping occurrences
RECURSIVE Replace(_, _, _)
Replace(s, old, new) ==
    IF Len(s) < Len(old) THEN s
    ELSE IF SubSeq(s, 1, Len(old)) = old
         THEN new \o Replace(SubSeq(s, Len(old) + 1, Len(s)), old, new)
         ELSE <<Head(s)>> \o Replace(Tail(s), old, new)

(***************************************************************************)
(* The regular expressions _glob_to_regex can produce, as re.compile reads *)
(* them: alternation, groups "(...)" and "(?:...)", the quantifiers "*"    *)
(* and "?", the atoms ".", "[^/]", "^", "$" and literal characters.        *)
(***************************************************************************)
RECURSIVE ParseAlt(_, _)
RECURSIVE ParseSeq(_, _)

ParseAtom(r, i) ==
    CASE r[i] = "(" ->
            LET j == IF i + 2 <= Len(r) /\ r[i + 1] = "?" /\ r[i + 2] = ":"
                     THEN i + 3 ELSE i + 1
                a == ParseAlt(r, j)
            IN  [n |-> a.n, i |-> a.i + 1]
      [] r[i] = "[" -> [n |-> [t |-> "notslash"], i |-> i + 4]
      [] r[i] = "." -> [n |-> [t |-> "any"], i |-> i + 1]
      [] r[i] = "^" -> [n |-> [t |-> "bol"], i |-> i + 1]
      [] r[i] = "$" -> [n |-> [t |-> "eol"], i |-> i + 1]
      [] OTHER -> [n |-> [t |-> "lit", c |-> r[i]], i |-> i + 1]

ParseQuant(r, a) ==
    IF a.i <= Len(r) /\ r[a.i] = "*"
    THEN [n |-> [t |-> "star", x |-> a.n], i |-> a.i + 1]
    ELSE IF a.i <= Len(r) /\ r[a.i] = "?"
         THEN [n |-> [t |-> "opt", x |-> a.n], i |-> a.i + 1]
         ELSE a

ParseSeq(r, i) ==
    IF i > Len(r) \/ r[i] \in {"|", ")"}
    THEN [n |-> [t |-> "seq", xs |-> <<>>], i |-> i]
    ELSE LET a == ParseQuant(r, ParseAtom(r, i))
             rest == ParseSeq(r, a.i)
         IN  [n |-> [t |-> "seq", xs |-> <<a.n>> \o rest.n.xs], i |-> rest.i]

ParseAlt(r, i) ==
    LET s == ParseSeq(r, i)
    IN  IF s.i <= Len(r) /\ r[s.i] = "|"
        THEN LET rest == ParseAlt(r, s.i + 1)
             IN  [n |-> [t |-> "alt", xs |-> <<s.n>> \o rest.n.xs], i |-> rest.i]
        ELSE [n |-> [t |-> "alt", xs |-> <<s.n>>], i |-> s.i]

\* re.compile
Compile(r) == ParseAlt(r, 1).n

\* Ends(n, s, I): the positions where a match of n can end, started at a
\* position of I (a position is the number of characters already consumed)
RECURSIVE Ends(_, _, _)
RECURSIVE EndsSeq(_, _, _)
RECURSIVE EndsStar(_, _, _)

Ends(n, s, I) ==
    CASE n.t = "lit" -> {k + 1 : k \in {i \in I : i < Len(s) /\ s[i + 1] = n.c}}
      [] n.t = "any" -> {k + 1 : k \in {i \in I : i < Len(s)}}
      [] n.t = "notslash" ->
            {k + 1 : k \in {i \in I : i < Len(s) /\ s[i + 1] # "/"}}
      [] n.t = "bol" -> I \cap {0}
      [] n.t = "eol" -> I \cap {Len(s)}
      [] n.t = "seq" -> EndsSeq(n.xs, s, I)
      [] n.t = "alt" -> UNION {Ends(n.xs[k], s, I) : k \in 1..Len(n.xs)}
      [] n.t = "opt" -> I \cup Ends(n.x, s, I)
      [] n.t = "star" -> EndsStar(n.x, s, I)

EndsSeq(xs, s, I) ==
    IF xs = <<>> \/ I = {} THEN I ELSE EndsSeq(Tail(xs), s, Ends(Head(xs), s, I))

EndsStar(x, s, I) ==
    LET J == I \cup Ends(x, s, I)
    IN  IF J = I THEN I ELSE EndsStar(x, s, J)

\* re.Pattern.search: a match may start anywhere
Search(r, s) == Ends(Compile(r), s, 0..Len(s)) # {}

(***************************************************************************)
(* ExcludePatternMatcher                                                   *)
(***************************************************************************)
\* a translation in which "*" also crosses "/"
GlobToRegexStarAnything(pattern) ==
    LET p1 == Replace(pattern, <<"*", "*", "/">>,
                      <<"(", "?", ":", ".", "*", "/", ")", "?">>)
        p2 == Replace(p1, <<"*", "*">>, <<".", "*">>)
        p3 == Replace(p2, <<"*">>, <<".", "*">>)
        p4 == Replace(p3, <<"?">>, <<"[", "^", "/", "]">>)
        p5 == IF EndsWith(p4, <<"/">>) THEN p4 \o <<".", "*">> ELSE p4
        p6 == IF StartsWith(p5, <<"/">>)
              THEN <<"^">> \o Tail(p5)
              ELSE <<"(", "?", ":", "^", "|", ".", "*", "/", ")">> \o p5
    IN  IF EndsWith(p6, <<".", "*">>) THEN p6 ELSE p6 \o <<"$">>

\* a translation that does not tie unanchored patterns to a segment start
GlobToRegexUnanchored(pattern) ==
    LET p1 == Replace(pattern, <<"*", "*", "/">>,
                      <<"(", "?", ":", ".", "*", "/", ")", "?">>)
        p2 == Replace(p1, <<"*", "*">>, <<".", "*">>)
        p3 == Replace(p2, <<"*">>, <<"[", "^", "/", "]", "*">>)
        p4 == Replace(p3, <<"?">>, <<"[", "^", "/", "]">>)
        p5 == IF EndsWith(p4, <<"/">>) THEN p4 \o <<".", "*">> ELSE p4
        p6 == IF StartsWith(p5, <<"/">>)
              THEN <<"^">> \o Tail(p5)
              ELSE p5
    IN  IF EndsWith(p6, <<".", "*">>) THEN p6 ELSE p6 \o <<"$">>

\* _glob_to_regex: the replacements in the order the code applies them
GlobToRegex(pattern) ==
    LET p1 == Replace(pattern, <<"*", "*", "/">>,
                      <<"(", "?", ":", ".", "*", "/", ")", "?">>)
        p2 == Replace(p1, <<"*", "*">>, <<".", "*">>)
        p3 == Replace(p2, <<"*">>, <<"[", "^", "/", "]", "*">>)
        p4 == Replace(p3, <<"?">>, <<"[", "^", "/", "]">>)
        p5 == IF EndsWith(p4, <<"/">>) THEN p4 \o <<".", "*">> ELSE p4
        p6 == IF StartsWith(p5, <<"/">>)
              THEN <<"^">> \o Tail(p5)
              ELSE <<"(", "?", ":", "^", "|", ".", "*", "/", ")">> \o p5
    IN  IF EndsWith(p6, <<".", "*">>) THEN p6 ELSE p6 \o <<"$">>

\* add_pattern: the rule list after one more pattern string
AddedPattern(rules, pattern) ==
    LET p == Strip(pattern)
        is_negation == StartsWith(p, <<"!">>)
        body == IF is_negation THEN Strip(Tail(p)) ELSE p
    IN  IF p = <<>> \/ StartsWith(p, <<"#">>)
        THEN rules
        ELSE Append(rules, [is_negation |-> is_negation, regex |-> GlobToRegex(body)])

\* the leading "./" normalisation of should_exclude
NormalizePath(p) == IF StartsWith(p, <<".", "/">>) THEN SubSeq(p, 3, Len(p)) ELSE p

\* the loop of should_exclude over rules k..Len(rules), entered with `acc`
RECURSIVE ExcludeLoop(_, _, _, _)
ExcludeLoop(rules, k, p, acc) ==
    IF k > Len(rules) THEN acc
    ELSE ExcludeLoop(rules, k + 1, p,
                     IF Search(rules[k].regex, p) THEN ~rules[k].is_negation ELSE acc)

ShouldExcludeFirstMatch(rules, p) ==
    LET q == NormalizePath(p)
        M == {k \in 1..Len(rules) : Search(rules[k].regex, q)}
    IN  M # {} /\ ~rules[CHOOSE k \in M : \A j \in M : k <= j].is_negation

ShouldExclude(rules, p) == ExcludeLoop(rules, 1, NormalizePath(p), FALSE)

(***************************************************************************)
(* Paths (pathlib), as strings with "/" separators                         *)
(***************************************************************************)
\* a / b
Join(a, b) == a \o <<"/">> \o b

\* p.relative_to(base), for p below base
RelativeTo(p, base) == SubSeq(p, Len(base) + 2, Len(p))

\* the directories above p inside the tree p is relative to
ParentDirs(p) == {SubSeq(p, 1, i - 1) : i \in {j \in 2..Len(p) : p[j] = "/"}}

Depth(p) == Cardinality({j \in 1..Len(p) : p[j] = "/"})

(***************************************************************************)
(* ConfigCollector                                                         *)
(***************************************************************************)
DEFAULT_EXCLUDE_PATTERNS ==
    <<<<"*", "*", "/", ".", "c", "a", "c", "h", "e", "/", "*">>,
      <<"*", "*", "/", "C", "a", "c", "h", "e", "/", "*">>,
      <<"*", "*", "/", "c", "a", "c", "h", "e", "/", "*">>,
      <<"*", "*", "/", "*", ".", "l", "o", "c", "k">>,
      <<"*", "*", "/", "*", ".", "p", "i", "d">>,
      <<"*", "*", "/", "c", "h", "r", "o", "m", "i", "u", "m", "/", "*">>,
      <<"*", "*", "/", "g", "o", "o", "g", "l", "e", "-", "c", "h", "r", "o", "m", "e", "/", "*">>,
      <<"*", "*", "/", "C", "o", "d", "e", "/", "C", "a", "c", "h", "e", "/", "*">>,
      <<"*", "*", "/", "C", "o", "d", "e", "/", "C", "a", "c", "h", "e", "d", "D", "a", "t", "a", "/", "*">>,
      <<"*", "*", "/", "C", "o", "d", "e", "/", "l", "o", "g", "s", "/", "*">>,
      <<"*", "*", "/", ".", "v", "s", "c", "o", "d", "e", "/", "e", "x", "t", "e", "n", "s", "i", "o", "n", "s", "/", "*">>,
      <<"*", "*", "/", "d", "i", "s", "c", "o", "r", "d", "/", "C", "a", "c", "h", "e", "/", "*">>,
      <<"*", "*", "/", "s", "l", "a", "c", "k", "/", "C", "a", "c", "h", "e", "/", "*">>>>

\* ExcludePatternMatcher(patterns): add_pattern for each, in order
RECURSIVE NewMatcher(_)
NewMatcher(ps) ==
    IF ps = <<>> THEN <<>>
    ELSE AddedPattern(NewMatcher(SubSeq(ps, 1, Len(ps) - 1)), ps[Len(ps)])

\* get_patterns: the compiled regular expressions, "!" before a negated one
GetPatterns(rules) ==
    [k \in 1..Len(rules) |->
        (IF rules[k].is_negation THEN <<"!">> ELSE <<>>) \o rules[k].regex]

\* BackupOrchestrator.__init__: self.exclude_patterns for an exclude file
\* holding `lines` (from_file keeps the non-blank lines, stripped)
OrchestratorExcludePatterns(lines) == GetPatterns(NewMatcher(lines))

\* ConfigCollector.__init__: the matcher over the defaults plus the
\* patterns handed over by the orchestrator
CollectorMatcher(exclude) == NewMatcher(DEFAULT_EXCLUDE_PATTERNS \o exclude)

Home == <<"/", "h">>

\* the name of the config directory, also the arcname of the tar
ConfigDirName == <<".", "c", "o", "n", "f", "i", "g">>

ConfigDir == Join(Home, ConfigDirName)

\* the files that may exist below ~/.config
S_G == Join(ConfigDir, <<"g">>)
S_AF == Join(ConfigDir, <<"a", "/", "f">>)
S_AXLog == Join(ConfigDir, <<"a", "/", "x", ".", "l", "o", "g">>)

SrcFiles == {S_G, S_AF, S_AXLog}

\* what a source file can be: "absent", "ok" (a regular file), "link" (a
\* symbolic link whose target does not exist), or present with one failing
\* access: os.stat, shutil.copy2 or capture_permissions
SrcStates == {"absent", "ok", "link", "stat_fails", "copy_fails", "capture_fails"}

\* rel_path = file_path.relative_to(config_dir.parent)
RelPath(f) == RelativeTo(f, Home)

\* os.walk with the dirs[:] filter: the files os.walk hands to the loop, those
\* none of whose directories below the scanned root is excluded
Visited(tree_, rules) ==
    {f \in SrcFiles :
        /\ tree_[f] # "absent"
        /\ \A d \in ParentDirs(RelativeTo(f, ConfigDir)) :
              ~ShouldExclude(rules, RelPath(Join(ConfigDir, d)))}

\* the orders os.walk (top-down) can yield a set of files in
WalkOrders(fs) ==
    {o \in [1..Cardinality(fs) -> fs] :
        /\ \A i, j \in DOMAIN o : i # j => o[i] # o[j]
        /\ \A i, j \in DOMAIN o : i < j => Depth(o[i]) <= Depth(o[j])}

\* a scanning loop that counts an excluded file as skipped and keeps it
RECURSIVE ScanLoopKeepingExcluded(_, _, _, _, _)
ScanLoopKeepingExcluded(order, k, tree_, rules, acc) ==
    IF k > Len(order) THEN acc
    ELSE LET f == order[k]
         IN  ScanLoopKeepingExcluded(order, k + 1, tree_, rules,
                 IF tree_[f] = "stat_fails"
                 THEN [acc EXCEPT !.skipped_count = @ + 1]
                 ELSE [acc EXCEPT !.files_to_backup = Append(@, f),
                                  !.skipped_count =
                                      IF ShouldExclude(rules, RelPath(f))
                                      THEN @ + 1 ELSE @])

\* the scanning loop over the visited files from position k on:
\* [files_to_backup, skipped_count]
RECURSIVE ScanLoop(_, _, _, _, _)
ScanLoop(order, k, tree_, rules, acc) ==
    IF k > Len(order) THEN acc
    ELSE LET f == order[k]
         IN  ScanLoop(order, k + 1, tree_, rules,
                 IF ShouldExclude(rules, RelPath(f))
                 THEN [acc EXCEPT !.skipped_count = @ + 1]
                 ELSE IF tree_[f] = "stat_fails"
                      THEN [acc EXCEPT !.skipped_count = @ + 1]
                      ELSE [acc EXCEPT !.files_to_backup = Append(@, f)])

Scan(order, tree_, rules) ==
    ScanLoop(order, 1, tree_, rules, [files_to_backup |-> <<>>, skipped_count |-> 0])

\* tar.add(temp_dir, arcname=".config", recursive=True): the member names for
\* the files staged below temp_dir (given by their paths relative to it)
\* (links: those of them staged with os.symlink)
TarMembers(staged_, links) ==
    {[name |-> ConfigDirName, kind |-> "dir"]}
    \cup {[name |-> Join(ConfigDirName, p),
           kind |-> IF p \in links THEN "link" ELSE "file"] : p \in staged_}
    \cup {[name |-> Join(ConfigDirName, d), kind |-> "dir"] :
            d \in UNION {ParentDirs(p) : p \in staged_}}

\* the summary collect returns
Summary(files, skipped) ==
    {<<"total_files", Len(files)>>, <<"total_size_bytes", Len(files)>>,
     <<"skipped_files", skipped>>}

SummaryWithPaths(files, skipped) ==
    Summary(files, skipped)
    \cup {<<"archive_path", "user-config.tar">>,
          <<"permissions_file", "file-permissions.json">>}

\* the temporary directory of a run: the packages directory, the
\* user-config directory with its staging tree temp_config, its tar and its
\* permissions sidecar, and manifest.json
EmptyWork ==
    [packages |-> FALSE, user_config |-> FALSE, temp_config |-> {},
     has_tar |-> FALSE, tar |-> {}, has_permissions |-> FALSE, permissions |-> {},
     manifest |-> [state |-> "unwritten", data |-> <<>>]]

NoCollect ==
    [files_to_backup |-> <<>>, skipped_count |-> 0, copied |-> 0,
     permissions_data |-> {}, returned |-> FALSE]

\* FileMetadata of a source file, as capture_permissions records it
Captured(tree_, f) ==
    [mode |-> IF tree_[f] = "link" THEN 41471 ELSE 33188, uid |-> 1000, gid |-> 1000,
     is_symlink |-> tree_[f] = "link"]

(***************************************************************************)
(* BackupOrchestrator and LocalStorage                                     *)
(***************************************************************************)
\* MetadataManager.create_metadata
CreateMetadata(backup_type, compression, exclude) ==
    [backup_id |-> "id1", backup_type |-> backup_type, parent_backup_id |-> "None",
     timestamp |-> "t1", hostname |-> "host", kernel_version |-> "6.1",
     bread_version |-> "0.1.0", compression |-> compression,
     exclude_patterns |-> exclude, components |-> {}, checksums |-> {}]

\* MetadataManager.add_component: metadata.components[name] = info
AddComponent(m, name, info) ==
    [m EXCEPT !.components = {c \in @ : c[1] # name} \cup {<<name, info>>}]

\* PackageCollector.collect: the summary it returns
PackageSummary ==
    {<<"total_count", 3>>, <<"explicit_count", 2>>, <<"aur_count", 1>>,
     <<"official_count", 2>>}

NoArchive == [state |-> "absent", content |-> EmptyWork]

NoDestination == [dir |-> FALSE, state |-> "absent", content |-> EmptyWork]

\* a context manager that cleans up only when the block ends normally
TempOnExitAfterReturnOnly(t, outcome) ==
    IF t = "exists" /\ outcome = "returned" THEN "removed" ELSE t

\* leaving `with tempfile.TemporaryDirectory(...)`: the directory is removed
\* however the block is left
TempOnExit(t, outcome) == IF t = "exists" THEN "removed" ELSE t

\* the ways execute() ends
Ended == {"returned", "raised", "interrupted"}

(***************************************************************************)
(* RestoreOrchestrator, PackageRestorer and ConfigRestorer                 *)
(***************************************************************************)
DefaultRestoreOptions ==
    [packages_only |-> FALSE, config_only |-> FALSE, data_only |-> FALSE,
     dry_run |-> FALSE]

RestoreOptions ==
    [packages_only : BOOLEAN, config_only : BOOLEAN, data_only : BOOLEAN,
     dry_run : BOOLEAN]

NoStats ==
    [packages |-> "none", official_installed |-> -1, aur_installed |-> -1,
     config |-> "none", files_restored |-> -1]

\* the package lists every backup with a packages directory carries
OfficialPackages == <<"vim", "git">>

AurPackages == <<"yay-bin">>

\* how a command can go: exit status 0, a non-zero exit status
\* (CalledProcessError, which _run_command turns into RuntimeError) or no
\* such executable (FileNotFoundError, which it does not catch)
CmdOutcomes == {"ok", "fails", "missing"}

\* PackageRestorer.restore with both lists non-empty; sy, s and aur are the
\* outcomes of `pacman -Sy`, `pacman -S` and the AUR helper (aur "missing":
\* _check_aur_helper finds none): [cmds, raised, official, aur]
PackageRestore(dry_run, sy, s, aur) ==
    LET probe == <<"yay --version">>
        aurcmds == IF aur = "missing" \/ dry_run THEN probe
                   ELSE probe \o [k \in 1..Len(AurPackages) |-> "yay -S"]
        aurcount == IF aur = "missing" THEN 0
                    ELSE IF dry_run THEN Len(AurPackages)
                    ELSE IF aur = "ok" THEN Len(AurPackages) ELSE 0
    IN  IF dry_run
        THEN [cmds |-> aurcmds, raised |-> FALSE,
              official |-> Len(OfficialPackages), aur |-> aurcount]
        ELSE IF sy = "missing"
        THEN [cmds |-> <<"pacman -Sy">>, raised |-> TRUE, official |-> -1, aur |-> -1]
        ELSE IF s = "missing"
        THEN [cmds |-> <<"pacman -Sy", "pacman -S">>, raised |-> TRUE,
              official |-> -1, aur |-> -1]
        ELSE [cmds |-> <<"pacman -Sy", "pacman -S">> \o aurcmds, raised |-> FALSE,
              official |-> IF s = "ok" THEN Len(OfficialPackages) ELSE 0,
              aur |-> aurcount]

\* the keys of a dict held as a set of <<key, value>> pairs
Keys(d) == {e[1] : e \in d}

\* the dangling links below the home directory once the tar x.tar is
\* extracted over it: a member replaces what was at its path
Dangling(x, dangling) ==
    (dangling \ {Join(Home, m.name) : m \in {n \in x.tar : n.kind # "link"}})
    \cup {Join(Home, m.name) : m \in {n \in x.tar : n.kind = "link"}}

\* Path.exists(): os.stat follows a symbolic link, so a link without a
\* target does not exist
PathExists(paths, dangling, p) == p \in paths /\ p \notin dangling

\* a restorer that extracts and applies permissions even in a dry run
ConfigRestoreIgnoringDryRun(x, t, dangling, dry_run) ==
    IF ~x.has_tar
    THEN [target |-> t, perm_calls |-> {}, files_restored |-> 0]
    ELSE LET permissions == IF x.has_permissions THEN x.permissions ELSE {}
             t2 == t \cup {Join(Home, m.name) : m \in x.tar}
         IN  [target |-> t2,
              perm_calls |-> {Join(Home, k) : k \in {j \in {e[1] : e \in permissions} :
                                                      PathExists(t2, Dangling(x, dangling),
                                                                 Join(Home, j))}},
              files_restored |-> Cardinality(x.tar)]

\* ConfigRestorer.restore(config_dir) on the extracted user-config
\* directory x, the home directory holding the paths t, those in dangling
\* being symbolic links without a target:
\* [target, perm_calls, files_restored]
ConfigRestore(x, t, dangling, dry_run) ==
    IF ~x.has_tar
    THEN [target |-> t, perm_calls |-> {}, files_restored |-> 0]
    ELSE IF dry_run
    THEN [target |-> t, perm_calls |-> {}, files_restored |-> Cardinality(x.tar)]
    ELSE LET permissions == IF x.has_permissions THEN x.permissions ELSE {}
             t2 == t \cup {Join(Home, m.name) : m \in x.tar}
         IN  [target |-> t2,
              perm_calls |-> {Join(Home, k) : k \in {j \in Keys(permissions) :
                                                      PathExists(t2, Dangling(x, dangling),
                                                                 Join(Home, j))}},
              files_restored |-> Cardinality(x.tar)]

(***************************************************************************)
(* MetadataManager.verify_checksums and RestoreOrchestrator.verify         *)
(***************************************************************************)
VFiles == {"packages/pacman-all.txt", "user-config/user-config.tar",
           "user-config/file-permissions.json"}

Written == "v1"      \* what a payload file held when the backup was written
Modified == "v2"     \* what it holds after a modification

Contents == {Written, Modified}

\* calculate_file_checksum: SHA-256, taken to be collision-free
Sha256(content) == <<"sha256", content>>

NoCall == [op |-> "none", result |-> "none", hashed |-> <<>>]

\* the loop of verify_checksums from entry k on; `hashed` lists the files
\* whose checksum has been computed
RECURSIVE VerifyLoop(_, _, _, _)
VerifyLoop(sums, k, root, hashed) ==
    IF k > Len(sums) THEN [result |-> "True", hashed |-> hashed]
    ELSE LET f == sums[k].file
         IN  IF root[f] = "absent"
             THEN [result |-> "False", hashed |-> hashed]
             ELSE IF root[f] = "dir"
                  \* exists() holds of a directory; open() then raises
                  THEN [result |-> "raised", hashed |-> hashed]
                  ELSE IF Sha256(root[f]) # sums[k].sum
                       THEN [result |-> "False", hashed |-> Append(hashed, f)]
                       ELSE VerifyLoop(sums, k + 1, root, Append(hashed, f))

RECURSIVE VerifyLoopIgnoringMissing(_, _, _, _)
VerifyLoopIgnoringMissing(sums, k, root, hashed) ==
    IF k > Len(sums) THEN [result |-> "True", hashed |-> hashed]
    ELSE LET f == sums[k].file
         IN  IF root[f] = "absent"
             THEN VerifyLoopIgnoringMissing(sums, k + 1, root, hashed)
             ELSE IF root[f] = "dir"
                  THEN [result |-> "raised", hashed |-> hashed]
                  ELSE IF Sha256(root[f]) # sums[k].sum
                       THEN [result |-> "False", hashed |-> Append(hashed, f)]
                       ELSE VerifyLoopIgnoringMissing(sums, k + 1, root,
                                                      Append(hashed, f))

VerifyChecksumsIgnoringMissing(root, sums) ==
    VerifyLoopIgnoringMissing(sums, 1, root, <<>>)

VerifyChecksums(root, sums) == VerifyLoop(sums, 1, root, <<>>)

\* read_from_backup: open the tar, find manifest.json, decode it
ReadFromBackup(file, member) ==
    IF file = "corrupt" THEN "TarError"
    ELSE IF member = "absent" THEN "KeyError"
    ELSE IF member = "undecodable" THEN "JSONDecodeError"
    ELSE "manifest"

\* RestoreOrchestrator.verify
Verify(file, member) ==
    IF file = "missing" THEN "raised"
    ELSE IF ReadFromBackup(file, member) = "manifest" THEN "True" ELSE "False"

(***************************************************************************)
(* FileMetadata and FilePermissionManager.restore_permissions              *)
(***************************************************************************)
\* what a system call can answer: success, PermissionError (EPERM, EACCES)
\* or another OSError (EINVAL, EROFS, ENOENT, ...)
SysOutcomes == {"ok", "PermissionError", "OSError"}

\* os.chmod keeps the file-type bits of st_mode and sets the permission bits
Chmod(st_mode, mode) == (st_mode \div 4096) * 4096 + (mode % 4096)

\* a restore that issues chmod whatever is_symlink says
RestorePermissionsChmodAlways(file, meta, oc, om, ou) ==
    LET f1 == IF oc = "ok"
              THEN [file EXCEPT !.uid = meta.uid, !.gid = meta.gid] ELSE file
        f2 == IF om = "ok" THEN [f1 EXCEPT !.mode = Chmod(f1.mode, meta.mode)]
              ELSE f1
        f3(f) == IF ou = "ok"
                 THEN [f EXCEPT !.atime = meta.atime, !.mtime = meta.mtime] ELSE f
    IN  IF oc = "OSError"
        THEN [file |-> file, calls |-> <<"chown">>, res |-> "raised"]
        ELSE IF om = "OSError"
             THEN [file |-> f1, calls |-> <<"chown", "chmod">>, res |-> "raised"]
             ELSE [file |-> f3(f2), calls |-> <<"chown", "chmod", "utime">>,
                   res |-> "returned"]

\* restore_permissions(file_path, metadata) when chown, chmod and utime
\* answer oc, om and ou: the file afterwards, the calls issued, and whether
\* the call raised
RestorePermissions(file, meta, oc, om, ou) ==
    LET f1 == IF oc = "ok"
              THEN [file EXCEPT !.uid = meta.uid, !.gid = meta.gid] ELSE file
        f2 == IF om = "ok" THEN [f1 EXCEPT !.mode = Chmod(f1.mode, meta.mode)]
              ELSE f1
        f3(f) == IF ou = "ok"
                 THEN [f EXCEPT !.atime = meta.atime, !.mtime = meta.mtime] ELSE f
    IN  IF oc = "OSError"
        THEN [file |-> file, calls |-> <<"chown">>, res |-> "raised"]
        ELSE IF meta.is_symlink
             THEN [file |-> f3(f1), calls |-> <<"chown", "utime">>,
                   res |-> "returned"]
             ELSE IF om = "OSError"
                  THEN [file |-> f1, calls |-> <<"chown", "chmod">>,
                        res |-> "raised"]
                  ELSE [file |-> f3(f2), calls |-> <<"chown", "chmod", "utime">>,
                        res |-> "returned"]

\* the files whose metadata is captured and restored in the permission
\* specification (st_mode 33188 is a regular file with 0o644)
MetaPool ==
    [mode : {33188, 33261}, uid : {0, 1000}, gid : {1000}, atime : {7},
     mtime : {5, 6}, is_symlink : BOOLEAN]

\* capture_permissions: the os.stat fields of the file (not following links)
CapturePermissions(file) ==
    [mode |-> file.mode, uid |-> file.uid, gid |-> file.gid, atime |-> file.atime,
     mtime |-> file.mtime, is_symlink |-> file.is_symlink]

OctDigit(d) == <<"0", "1", "2", "3", "4", "5", "6", "7">>[d + 1]

DigitValue(c) == CHOOSE d \in 0..9 : <<"0", "1", "2", "3", "4", "5", "6", "7", "8", "9">>[d + 1] = c

\* oct(n) without its "0o" prefix
RECURSIVE OctDigits(_)
OctDigits(n) ==
    IF n < 8 THEN <<OctDigit(n)>> ELSE Append(OctDigits(n \div 8), OctDigit(n % 8))

\* oct(n)
Oct(n) == <<"0", "o">> \o OctDigits(n)

\* the value of a digit string read in base 10
RECURSIVE DigitsToIntBase10(_)
DigitsToIntBase10(ds) ==
    IF ds = <<>> THEN 0
    ELSE DigitsToIntBase10(SubSeq(ds, 1, Len(ds) - 1)) * 10 + DigitValue(ds[Len(ds)])

\* the value of a digit string read in base 8
RECURSIVE DigitsToInt(_)
DigitsToInt(ds) ==
    IF ds = <<>> THEN 0
    ELSE DigitsToInt(SubSeq(ds, 1, Len(ds) - 1)) * 8 + DigitValue(ds[Len(ds)])

\* int(s, 8): an optional "0o" prefix, then octal digits
IntBase8(str) ==
    IF StartsWith(str, <<"0", "o">>) THEN DigitsToInt(SubSeq(str, 3, Len(str)))
    ELSE DigitsToInt(str)

\* FileMetadata.to_dict: the mode becomes its octal string
FileToDict(meta) == [meta EXCEPT !.mode = Oct(meta.mode)]

\* FileMetadata.from_dict: a string mode is read back in base 8
FileFromDict(data) == [data EXCEPT !.mode = IntBase8(data.mode)]

\* a freshly extracted file, owned by the restoring user
FreshFile == [mode |-> 33152, uid |-> 1001, gid |-> 1001, atime |-> 9, mtime |-> 9]

(***************************************************************************)
(* BackupMetadata.from_dict and MetadataManager.load_metadata              *)
(***************************************************************************)
RequiredFields ==
    {"backup_id", "backup_type", "timestamp", "hostname", "kernel_version",
     "bread_version", "compression"}

\* the dataclass fields that have defaults, and the defaults
DefaultFields ==
    [parent_backup_id |-> "None", components |-> {}, exclude_patterns |-> <<>>,
     checksums |-> {}]

FieldNames == RequiredFields \cup DOMAIN DefaultFields

\* BackupMetadata.to_dict
ToDict(m) == [k \in FieldNames |-> m[k]]

\* a loader that keeps only the required fields and defaults the others
FromDictRequiredOnly(data) ==
    IF ~(DOMAIN data \subseteq FieldNames) \/ ~(RequiredFields \subseteq DOMAIN data)
    THEN [status |-> "TypeError", manifest |-> "none"]
    ELSE [status |-> "ok",
          manifest |-> [k \in FieldNames |->
                           IF k \in RequiredFields THEN data[k] ELSE DefaultFields[k]]]

\* BackupMetadata.from_dict: cls(**data)
FromDict(data) ==
    IF ~(DOMAIN data \subseteq FieldNames) \/ ~(RequiredFields \subseteq DOMAIN data)
    THEN [status |-> "TypeError", manifest |-> "none"]
    ELSE [status |-> "ok",
          manifest |-> [k \in FieldNames |->
                           IF k \in DOMAIN data THEN data[k] ELSE DefaultFields[k]]]

\* load_metadata / read_from_backup: json.load, then from_dict
LoadMetadata(record) ==
    IF record.state = "malformed"
    THEN [status |-> "JSONDecodeError", manifest |-> "none"]
    ELSE FromDict(record.data)

\* the manifests of the manifest specification
ManifestPool ==
    [backup_id : {"id1"}, backup_type : {"full", "incremental"},
     parent_backup_id : {"None", "id0"}, timestamp : {"t1"}, hostname : {"host"},
     kernel_version : {"6.1"}, bread_version : {"0.1.0"}, compression : {"zstd"},
     components : {{}, {<<"user_config", {<<"total_files", 7>>}>>}},
     exclude_patterns : {<<>>, <<"*.log">>},
     checksums : {{}, {<<"backup_archive", "ab12">>}}]

\* top-level fields a later version of the tool might write
UnknownFields == {"schema_version", "encryption"}

NotLoaded == [status |-> "none", manifest |-> "none"]

Unwritten == [state |-> "unwritten", data |-> <<>>]

(***************************************************************************)
(* Each specification below drives one part of the program and leaves the  *)
(* variables of the other parts at these values.                           *)
(***************************************************************************)
(***************************************************************************)
(* LocalStorage: list_backups, delete_backup, cleanup_old_backups          *)
(***************************************************************************)
MaxKeep == 2

MaxMtime == 3

\* the names matching *.bread the destination directory may hold
BackupNames == {"a.bread", "b.bread", "c.bread"}

NoEntry == [present |-> FALSE, mtime |-> 0, statable |-> FALSE]

\* a directory entry: its st_mtime, and whether stat() on it succeeds (it
\* raises OSError on a symbolic link without a target, for one)
Entries == [present : {TRUE}, mtime : 1..MaxMtime, statable : BOOLEAN]

NoCleanup ==
    [state |-> "none", keep_count |-> 0, before |-> [n \in BackupNames |-> NoEntry],
     failed |-> {}, deleted |-> <<>>]

\* list_backups(sort_by="date"): the entries whose stat succeeded, the most
\* recent first; the sort is stable and glob yields in any order, so entries
\* of equal date come in any order
ListBackups(dir) ==
    LET listed == {n \in BackupNames : dir[n].present /\ dir[n].statable}
    IN  {o \in [1..Cardinality(listed) -> listed] :
            /\ \A i, j \in DOMAIN o : i # j => o[i] # o[j]
            /\ \A i, j \in DOMAIN o : i < j => dir[o[i]].mtime >= dir[o[j]].mtime}

\* a slice that keeps the oldest keep_count backups
ToDeleteNewest(backups, keep_count) ==
    SubSeq(backups, 1, IF Len(backups) > keep_count THEN Len(backups) - keep_count ELSE 0)

\* backups[keep_count:]
ToDelete(backups, keep_count) ==
    IF keep_count >= Len(backups) THEN <<>>
    ELSE SubSeq(backups, keep_count + 1, Len(backups))

\* the loop of cleanup_old_backups over old from position k on: delete_backup
\* raises OSError for the names in fails, which the loop passes over
RECURSIVE DeleteLoop(_, _, _, _, _)
DeleteLoop(old, k, dir, fails, deleted) ==
    IF k > Len(old) THEN [dir |-> dir, deleted |-> deleted]
    ELSE IF old[k] \in fails \/ ~dir[old[k]].present
    THEN DeleteLoop(old, k + 1, dir, fails, deleted)
    ELSE DeleteLoop(old, k + 1, [dir EXCEPT ![old[k]] = NoEntry], fails,
                    Append(deleted, old[k]))

\* cleanup_old_backups(keep_count), list_backups having returned backups:
\* [dir, deleted]
CleanupOldBackups(dir, keep_count, backups, fails) ==
    DeleteLoop(ToDelete(backups, keep_count), 1, dir, fails, <<>>)

MatcherIdle ==
    /\ given = <<>>
    /\ patterns = <<>>
    /\ path = <<>>
    /\ answered = FALSE
    /\ excluded = FALSE

VerifyIdle ==
    /\ checksums = <<>>
    /\ tree = [f \in VFiles |-> Written]
    /\ container = "ok"
    /\ manifest_member = "ok"
    /\ vcall = NoCall

PermIdle ==
    /\ porig = [mode |-> 33188, uid |-> 0, gid |-> 1000, atime |-> 7, mtime |-> 5,
                is_symlink |-> FALSE]
    /\ pvia = FALSE
    /\ pmeta = [mode |-> 33188, uid |-> 0, gid |-> 1000, atime |-> 7, mtime |-> 5,
                is_symlink |-> FALSE]
    /\ pouts = <<>>
    /\ pfile = FreshFile
    /\ syscalls = <<>>
    /\ pres = "none"

ManifestIdle ==
    /\ msaved = "none"
    /\ mrecord = Unwritten
    /\ mloaded = NotLoaded

RunIdle ==
    /\ opts = [include_packages |-> TRUE, include_config |-> TRUE, exclude_lines |-> <<>>]
    /\ config_exists = FALSE
    /\ src = [f \in SrcFiles |-> "absent"]
    /\ bpc = "init"
    /\ failure = "none"
    /\ temp = "none"
    /\ metadata = "none"
    /\ work = EmptyWork
    /\ col = NoCollect
    /\ archive = NoArchive
    /\ dest = NoDestination
    /\ ropts = DefaultRestoreOptions
    /\ rpc = "init"
    /\ rtemp = "none"
    /\ extracted = EmptyWork
    /\ rmeta = NotLoaded
    /\ target = {}
    /\ perm_calls = {}
    /\ pkg_cmds = <<>>
    /\ rfailure = "none"
    /\ rstats = NoStats

StoreIdle ==
    /\ bdir = [n \in BackupNames |-> NoEntry]
    /\ bcall = NoCleanup

\* the orderings of at most MaxListed distinct payload files
Listings ==
    {l \in UNION {[1..n -> VFiles] : n \in 0..MaxListed} :
        \A i, j \in DOMAIN l : i # j => l[i] # l[j]}

\* an untouched backup: every payload file as written, the manifest
\* recording the checksum of what was written for the files it lists
VerifyInit ==
    /\ MatcherIdle
    /\ RunIdle
    /\ StoreIdle
    /\ PermIdle
    /\ ManifestIdle
    /\ tree = [f \in VFiles |-> Written]
    /\ \E l \in Listings :
          checksums = [k \in DOMAIN l |-> [file |-> l[k], sum |-> Sha256(Written)]]
    /\ container = "ok"
    /\ manifest_member = "ok"
    /\ vcall = NoCall

VerifyFrame == UNCHANGED <<matcherVars, permVars, manifestVars, runVars, storeVars>>

ModifyFile(f) ==
    /\ tree[f] \in Contents
    /\ tree' = [tree EXCEPT ![f] = IF tree[f] = Written THEN Modified ELSE Written]
    /\ vcall' = NoCall
    /\ UNCHANGED <<checksums, container, manifest_member>>
    /\ VerifyFrame

DeleteFile(f) ==
    /\ tree[f] # "absent"
    /\ tree' = [tree EXCEPT ![f] = "absent"]
    /\ vcall' = NoCall
    /\ UNCHANGED <<checksums, container, manifest_member>>
    /\ VerifyFrame

ReplaceByDirectory(f) ==
    /\ tree[f] = "absent"
    /\ tree' = [tree EXCEPT ![f] = "dir"]
    /\ vcall' = NoCall
    /\ UNCHANGED <<checksums, container, manifest_member>>
    /\ VerifyFrame

DamageContainer(how) ==
    /\ container = "ok"
    /\ container' = how
    /\ vcall' = NoCall
    /\ UNCHANGED <<checksums, tree, manifest_member>>
    /\ VerifyFrame

DamageManifest(how) ==
    /\ manifest_member = "ok"
    /\ manifest_member' = how
    /\ vcall' = NoCall
    /\ UNCHANGED <<checksums, tree, container>>
    /\ VerifyFrame

CallVerifyChecksums ==
    /\ vcall' = [op |-> "verify_checksums"] @@ VerifyChecksums(tree, checksums)
    /\ UNCHANGED <<checksums, tree, container, manifest_member>>
    /\ VerifyFrame

CallVerify ==
    /\ vcall' = [op |-> "verify", result |-> Verify(container, manifest_member),
                 hashed |-> <<>>]
    /\ UNCHANGED <<checksums, tree, container, manifest_member>>
    /\ VerifyFrame

VerifyNext ==
    \/ \E f \in VFiles : ModifyFile(f)
    \/ \E f \in VFiles : DeleteFile(f)
    \/ \E f \in VFiles : ReplaceByDirectory(f)
    \/ \E how \in {"corrupt", "missing"} : DamageContainer(how)
    \/ \E how \in {"absent", "undecodable"} : DamageManifest(how)
    \/ CallVerifyChecksums
    \/ CallVerify

VerifySpec == VerifyInit /\ [][VerifyNext]_vars

(***************************************************************************)
(* Pattern and path pools of the matcher specification                     *)
(***************************************************************************)
P_StarLog == <<"*", ".", "l", "o", "g">>
P_NotKeepLog == <<"!", "k", "e", "e", "p", ".", "l", "o", "g">>
P_CacheAll == <<"*", "*", "/", "c", "a", "c", "h", "e", "/", "*">>
P_Comment == <<"#", " ", "x">>
P_Blank == <<" ">>
P_NotA == <<"!", " ", "a", " ">>

PatternPool == {P_StarLog, P_NotKeepLog, P_CacheAll, P_Comment, P_Blank, P_NotA}

F_AppLog == <<"a", "p", "p", ".", "l", "o", "g">>
F_KeepLog == <<"k", "e", "e", "p", ".", "l", "o", "g">>
F_DotAppLog == <<".", "/", "a", "p", "p", ".", "l", "o", "g">>
F_DeepCacheX == <<"a", "/", "b", "/", "c", "a", "c", "h", "e", "/", "x">>
F_CacheX == <<"c", "a", "c", "h", "e", "/", "x">>
F_Cache == <<"c", "a", "c", "h", "e">>
F_A == <<"a">>
F_SubKeepLog == <<"a", "/", "k", "e", "e", "p", ".", "l", "o", "g">>

PathPool ==
    {F_AppLog, F_KeepLog, F_DotAppLog, F_DeepCacheX, F_CacheX, F_Cache, F_A,
     F_SubKeepLog}

(***************************************************************************)
(* The matcher as a state machine: patterns are added one by one           *)
(* (__init__ calls add_pattern per element), paths are queried.            *)
(***************************************************************************)
MatcherInit ==
    MatcherIdle /\ VerifyIdle /\ PermIdle /\ ManifestIdle /\ RunIdle /\ StoreIdle

AddPattern(p) ==
    /\ Len(given) < MaxPatterns
    /\ given' = Append(given, p)
    /\ patterns' = AddedPattern(patterns, p)
    /\ path' = <<>>
    /\ answered' = FALSE
    /\ excluded' = FALSE
    /\ UNCHANGED <<verifyVars, permVars, manifestVars, runVars, storeVars>>

CallShouldExclude(p) ==
    /\ path' = p
    /\ answered' = TRUE
    /\ excluded' = ShouldExclude(patterns, p)
    /\ UNCHANGED <<given, patterns>>
    /\ UNCHANGED <<verifyVars, permVars, manifestVars, runVars, storeVars>>

MatcherNext ==
    \/ \E p \in PatternPool : AddPattern(p)
    \/ \E p \in PathPool : CallShouldExclude(p)

MatcherSpec == MatcherInit /\ [][MatcherNext]_vars

(***************************************************************************)
(* The matcher on the glob forms: the same two operations over the         *)
(* patterns and paths that exercise "*", "?", "**", "/" at either end      *)
(***************************************************************************)
G_NodeModulesDir == <<"n", "o", "d", "e", "_", "m", "o", "d", "u", "l", "e", "s", "/">>
G_AStarStarB == <<"a", "*", "*", "b">>
G_AStarB == <<"a", "*", "b">>
G_AQB == <<"a", "?", "b">>
G_RootFoo == <<"/", "f", "o", "o">>
G_Foo == <<"f", "o", "o">>

GlobPool == {G_NodeModulesDir, G_AStarStarB, G_AStarB, G_AQB, G_RootFoo, G_Foo}

Q_NodeModules == <<"n", "o", "d", "e", "_", "m", "o", "d", "u", "l", "e", "s">>
Q_NodeModulesX == <<"n", "o", "d", "e", "_", "m", "o", "d", "u", "l", "e", "s", "/", "x">>
Q_DeepNodeModules == <<"a", "/", "n", "o", "d", "e", "_", "m", "o", "d", "u", "l", "e", "s", "/", "x", "/", "y">>
Q_AB == <<"a", "b">>
Q_ASlashB == <<"a", "/", "b">>
Q_ADeepB == <<"a", "/", "x", "/", "y", "/", "b">>
Q_AXYB == <<"a", "x", "y", "b">>
Q_AXB == <<"a", "x", "b">>
Q_SubAXB == <<"x", "/", "a", "x", "b">>
Q_Foo == <<"f", "o", "o">>
Q_AFoo == <<"a", "f", "o", "o">>
Q_SubFoo == <<"a", "/", "f", "o", "o">>

GlobPaths ==
    {Q_NodeModules, Q_NodeModulesX, Q_DeepNodeModules, Q_AB, Q_ASlashB, Q_ADeepB,
     Q_AXYB, Q_AXB, Q_SubAXB, Q_Foo, Q_AFoo, Q_SubFoo}

GlobNext ==
    \/ \E p \in GlobPool : AddPattern(p)
    \/ \E p \in GlobPaths : CallShouldExclude(p)

GlobSpec == MatcherInit /\ [][GlobNext]_vars

(***************************************************************************)
(* restore_permissions as a state machine: one call on a fresh file, the   *)
(* operating system answering each system call in any of the three ways    *)
(***************************************************************************)
PermInit ==
    /\ MatcherIdle
    /\ RunIdle
    /\ StoreIdle
    /\ VerifyIdle
    /\ ManifestIdle
    /\ porig \in MetaPool
    /\ pvia \in BOOLEAN
    /\ pmeta = IF pvia THEN FileFromDict(FileToDict(CapturePermissions(porig)))
               ELSE CapturePermissions(porig)
    /\ pfile = FreshFile
    /\ syscalls = <<>>
    /\ pres = "none"
    /\ pouts = <<>>

CallRestorePermissions(oc, om, ou) ==
    /\ pres = "none"
    /\ LET r == RestorePermissions(pfile, pmeta, oc, om, ou)
       IN  /\ pfile' = r.file
           /\ syscalls' = r.calls
           /\ pres' = r.res
    /\ pouts' = <<oc, om, ou>>
    /\ UNCHANGED <<porig, pvia, pmeta>>
    /\ UNCHANGED <<matcherVars, verifyVars, manifestVars, runVars, storeVars>>

PermNext == \E oc, om, ou \in SysOutcomes : CallRestorePermissions(oc, om, ou)

PermSpec == PermInit /\ [][PermNext]_vars

(***************************************************************************)
(* The manifest file as a state machine: written by save_metadata, then    *)
(* possibly extended or damaged, then loaded                               *)
(***************************************************************************)
ManifestInit ==
    /\ MatcherIdle
    /\ RunIdle
    /\ StoreIdle
    /\ VerifyIdle
    /\ PermIdle
    /\ msaved \in ManifestPool
    /\ mrecord = Unwritten
    /\ mloaded = NotLoaded

ManifestFrame == UNCHANGED <<matcherVars, verifyVars, permVars, runVars, storeVars>>

\* save_metadata: json.dump(metadata.to_dict())
SaveMetadata ==
    /\ mrecord.state = "unwritten"
    /\ mrecord' = [state |-> "written", data |-> ToDict(msaved)]
    /\ UNCHANGED <<msaved, mloaded>>
    /\ ManifestFrame

\* a record written by a later version carries one more top-level field
AddUnknownField(k) ==
    /\ mrecord.state = "written"
    /\ k \notin DOMAIN mrecord.data
    /\ mrecord' = [mrecord EXCEPT !.data = mrecord.data @@ (k :> "x")]
    /\ mloaded' = NotLoaded
    /\ UNCHANGED msaved
    /\ ManifestFrame

\* a record written by an earlier version lacks one field
DropField(k) ==
    /\ mrecord.state = "written"
    /\ FieldNames \subseteq DOMAIN mrecord.data
    /\ mrecord' = [mrecord EXCEPT
                      !.data = [j \in DOMAIN mrecord.data \ {k} |-> mrecord.data[j]]]
    /\ mloaded' = NotLoaded
    /\ UNCHANGED msaved
    /\ ManifestFrame

GarbleRecord ==
    /\ mrecord.state = "written"
    /\ mrecord' = [state |-> "malformed", data |-> <<>>]
    /\ mloaded' = NotLoaded
    /\ UNCHANGED msaved
    /\ ManifestFrame

CallLoadMetadata ==
    /\ mrecord.state # "unwritten"
    /\ mloaded' = LoadMetadata(mrecord)
    /\ UNCHANGED <<msaved, mrecord>>
    /\ ManifestFrame

ManifestNext ==
    \/ SaveMetadata
    \/ \E k \in UnknownFields : AddUnknownField(k)
    \/ \E k \in {"hostname", "checksums"} : DropField(k)
    \/ GarbleRecord
    \/ CallLoadMetadata

ManifestSpec == ManifestInit /\ [][ManifestNext]_vars

(***************************************************************************)
(* One backup run and one restore of what it left at the destination.      *)
(* Each action is one step of execute(); an exception or an interrupt      *)
(* leaves the `with` block from wherever the run stands.                   *)
(***************************************************************************)
MaxFaults == 1

Faults == {"stat_fails", "copy_fails", "capture_fails"}

ExcludeFiles == {<<>>, <<<<"*", ".", "l", "o", "g">>>>}

RunInit ==
    /\ StoreIdle
    /\ MatcherIdle
    /\ VerifyIdle
    /\ PermIdle
    /\ ManifestIdle
    /\ opts \in [include_packages : BOOLEAN, include_config : BOOLEAN,
                 exclude_lines : ExcludeFiles]
    /\ config_exists \in BOOLEAN
    /\ src \in [SrcFiles -> SrcStates]
    /\ Cardinality({f \in SrcFiles : src[f] \in Faults}) <= MaxFaults
    /\ ~config_exists => \A f \in SrcFiles : src[f] = "absent"
    /\ \A f \in SrcFiles : src[f] = "link" => f = S_G
    /\ bpc = "init"
    /\ failure = "none"
    /\ temp = "none"
    /\ metadata = "none"
    /\ work = EmptyWork
    /\ col = NoCollect
    /\ archive = NoArchive
    /\ dest = NoDestination
    /\ ropts = DefaultRestoreOptions
    /\ rpc = "init"
    /\ rtemp = "none"
    /\ extracted = EmptyWork
    /\ rmeta = NotLoaded
    /\ target = {}
    /\ perm_calls = {}
    /\ pkg_cmds = <<>>
    /\ rfailure = "none"
    /\ rstats = NoStats

RunFrame == UNCHANGED <<matcherVars, verifyVars, permVars, manifestVars, storeVars>>

BackupFrame == RunFrame /\ UNCHANGED <<opts, config_exists, src, restoreVars>>

\* the positions inside the `with tempfile.TemporaryDirectory` block
InBackup ==
    {"collect_packages", "collect_config", "copy", "save_metadata",
     "create_archive", "archiving", "save_to_destination", "copying"}

\* execute() is left: the context manager removes the temporary directory
\* with everything in it
LeaveBackup(outcome, why) ==
    /\ bpc' = outcome
    /\ failure' = why
    /\ temp' = TempOnExit(temp, outcome)
    /\ work' = IF temp' = "removed" THEN EmptyWork ELSE work

\* execute: pacman is required and not found
PacmanMissing ==
    /\ bpc = "init"
    /\ opts.include_packages
    /\ LeaveBackup("raised", "pacman")
    /\ UNCHANGED <<metadata, col, archive, dest>>
    /\ BackupFrame

\* execute: the temporary directory and the metadata object are created
EnterBackup ==
    /\ bpc = "init"
    /\ bpc' = "collect_packages"
    /\ temp' = "exists"
    /\ metadata' = CreateMetadata("full", "zstd",
                                  OrchestratorExcludePatterns(opts.exclude_lines))
    /\ UNCHANGED <<failure, work, col, archive, dest>>
    /\ BackupFrame

\* _collect_packages
CollectPackages ==
    /\ bpc = "collect_packages"
    /\ bpc' = "collect_config"
    /\ IF opts.include_packages
       THEN /\ work' = [work EXCEPT !.packages = TRUE]
            /\ metadata' = AddComponent(metadata, "packages", PackageSummary)
       ELSE UNCHANGED <<work, metadata>>
    /\ UNCHANGED <<failure, temp, col, archive, dest>>
    /\ BackupFrame

\* _collect_packages: a pacman query fails
CollectPackagesFails ==
    /\ bpc = "collect_packages"
    /\ opts.include_packages
    /\ LeaveBackup("raised", "packages")
    /\ UNCHANGED <<metadata, col, archive, dest>>
    /\ BackupFrame

\* a collector that raises FileNotFoundError when ~/.config is missing
CollectConfigMissingRaises ==
    /\ bpc = "collect_config"
    /\ ~opts.include_config \/ ~config_exists
    /\ IF opts.include_config
       THEN /\ LeaveBackup("raised", "config_missing")
            /\ UNCHANGED <<metadata, col>>
       ELSE /\ bpc' = "save_metadata"
            /\ UNCHANGED <<failure, temp, work, metadata, col>>
    /\ UNCHANGED <<archive, dest>>
    /\ BackupFrame

\* _collect_config without a config phase, or without ~/.config
CollectConfigNothing ==
    /\ bpc = "collect_config"
    /\ ~opts.include_config \/ ~config_exists
    /\ bpc' = "save_metadata"
    /\ IF opts.include_config
       THEN /\ work' = [work EXCEPT !.user_config = TRUE]
            /\ metadata' = AddComponent(metadata, "user_config", Summary(<<>>, 0))
            /\ col' = [col EXCEPT !.returned = TRUE]
       ELSE UNCHANGED <<work, metadata, col>>
    /\ UNCHANGED <<failure, temp, archive, dest>>
    /\ BackupFrame

\* ConfigCollector.collect: the scanning loop, os.walk yielding the files in
\* any top-down order
CollectScan ==
    /\ bpc = "collect_config"
    /\ opts.include_config /\ config_exists
    /\ bpc' = "copy"
    /\ LET rules == CollectorMatcher(metadata.exclude_patterns)
       IN  \E order \in WalkOrders(Visited(src, rules)) :
              LET r == Scan(order, src, rules)
              IN  col' = [col EXCEPT !.files_to_backup = r.files_to_backup,
                                     !.skipped_count = r.skipped_count]
    /\ work' = [work EXCEPT !.user_config = TRUE]
    /\ UNCHANGED <<failure, temp, metadata, archive, dest>>
    /\ BackupFrame

\* ConfigCollector.collect: one round of the copying loop
CollectCopy ==
    /\ bpc = "copy"
    /\ col.copied < Len(col.files_to_backup)
    /\ LET f == col.files_to_backup[col.copied + 1]
       IN  /\ src[f] # "copy_fails"
           /\ work' = [work EXCEPT !.temp_config = @ \cup {RelPath(f)}]
           /\ col' = [col EXCEPT
                        !.copied = @ + 1,
                        !.permissions_data =
                            IF src[f] = "capture_fails" THEN @
                            ELSE {e \in @ : e[1] # RelPath(f)}
                                 \cup {<<RelPath(f), Captured(src, f)>>}]
    /\ UNCHANGED <<bpc, failure, temp, metadata, archive, dest>>
    /\ BackupFrame

\* ConfigCollector.collect: shutil.copy2 raises; nothing catches it before
\* execute() is left
CollectCopyFails ==
    /\ bpc = "copy"
    /\ col.copied < Len(col.files_to_backup)
    /\ src[col.files_to_backup[col.copied + 1]] = "copy_fails"
    /\ LeaveBackup("raised", "config_copy")
    /\ UNCHANGED <<metadata, col, archive, dest>>
    /\ BackupFrame

\* ConfigCollector.collect after the loop: the sidecar, the tar, rmtree of
\* temp_config, the summary; _collect_config adds the component
CollectSeal ==
    /\ bpc = "copy"
    /\ col.copied = Len(col.files_to_backup)
    /\ bpc' = "save_metadata"
    /\ work' = [work EXCEPT !.has_permissions = TRUE,
                            !.permissions = col.permissions_data,
                            !.has_tar = TRUE,
                            !.tar = TarMembers(work.temp_config,
                                              {RelPath(f) : f \in {g \in SrcFiles :
                                                                     src[g] = "link"}}),
                            !.temp_config = {}]
    /\ col' = [col EXCEPT !.returned = TRUE]
    /\ metadata' = AddComponent(metadata, "user_config",
                       SummaryWithPaths(col.files_to_backup, col.skipped_count))
    /\ UNCHANGED <<failure, temp, archive, dest>>
    /\ BackupFrame

\* an orchestrator that may write the manifest before the configuration
\* files are collected
SaveManifestBeforeConfig ==
    /\ bpc \in {"collect_config", "save_metadata"}
    /\ bpc' = "create_archive"
    /\ work' = [work EXCEPT !.manifest = [state |-> "written", data |-> ToDict(metadata)]]
    /\ UNCHANGED <<failure, temp, metadata, col, archive, dest>>
    /\ BackupFrame

\* save_metadata(metadata, temp_path)
SaveManifest ==
    /\ bpc = "save_metadata"
    /\ bpc' = "create_archive"
    /\ work' = [work EXCEPT !.manifest = [state |-> "written", data |-> ToDict(metadata)]]
    /\ UNCHANGED <<failure, temp, metadata, col, archive, dest>>
    /\ BackupFrame

\* _create_archive: tarfile.open(archive_path, "w:..") next to the
\* temporary directory
CreateArchiveBegin ==
    /\ bpc = "create_archive"
    /\ bpc' = "archiving"
    /\ archive' = [state |-> "partial", content |-> EmptyWork]
    /\ UNCHANGED <<failure, temp, metadata, work, col, dest>>
    /\ BackupFrame

\* _create_archive: the members are added, the checksum of the archive is
\* put into metadata.checksums
CreateArchive ==
    /\ bpc = "archiving"
    /\ bpc' = "save_to_destination"
    /\ archive' = [state |-> "complete", content |-> work]
    /\ metadata' = [metadata EXCEPT
                       !.checksums = {c \in @ : c[1] # "backup_archive"}
                                     \cup {<<"backup_archive", Sha256(work)>>}]
    /\ UNCHANGED <<failure, temp, work, col, dest>>
    /\ BackupFrame

\* _create_archive: writing fails ("Failed to create archive")
CreateArchiveFails ==
    /\ bpc = "archiving"
    /\ LeaveBackup("raised", "archive")
    /\ UNCHANGED <<metadata, col, archive, dest>>
    /\ BackupFrame

\* _save_to_destination: the directory is made, there is room, and
\* save_backup opens the destination file (shutil.copy2)
SaveBackupBegin ==
    /\ bpc = "save_to_destination"
    /\ bpc' = "copying"
    /\ dest' = [dir |-> TRUE, state |-> "partial", content |-> EmptyWork]
    /\ UNCHANGED <<failure, temp, metadata, work, col, archive>>
    /\ BackupFrame

\* a disk check made only after the copy has been started
InsufficientSpaceAfterCopy ==
    /\ bpc = "save_to_destination"
    /\ dest' = [dest EXCEPT !.dir = TRUE, !.state = "partial"]
    /\ LeaveBackup("raised", "disk_space")
    /\ UNCHANGED <<metadata, col, archive>>
    /\ BackupFrame

\* _save_to_destination: "Insufficient disk space"
InsufficientSpace ==
    /\ bpc = "save_to_destination"
    /\ dest' = [dest EXCEPT !.dir = TRUE]
    /\ LeaveBackup("raised", "disk_space")
    /\ UNCHANGED <<metadata, col, archive>>
    /\ BackupFrame

\* save_backup: shutil.copy2 completes; execute() returns
SaveBackup ==
    /\ bpc = "copying"
    /\ dest' = [dest EXCEPT !.state = "complete", !.content = archive.content]
    /\ LeaveBackup("returned", "none")
    /\ UNCHANGED <<metadata, col, archive>>
    /\ BackupFrame

\* save_backup: shutil.copy2 raises OSError part-way
SaveBackupFails ==
    /\ bpc = "copying"
    /\ LeaveBackup("raised", "save_backup")
    /\ UNCHANGED <<metadata, col, archive, dest>>
    /\ BackupFrame

\* KeyboardInterrupt anywhere inside the `with` block
InterruptBackup ==
    /\ bpc \in InBackup
    /\ LeaveBackup("interrupted", "interrupt")
    /\ UNCHANGED <<metadata, col, archive, dest>>
    /\ BackupFrame

BackupNext ==
    \/ PacmanMissing
    \/ EnterBackup
    \/ CollectPackages
    \/ CollectPackagesFails
    \/ CollectConfigNothing
    \/ CollectScan
    \/ CollectCopy
    \/ CollectCopyFails
    \/ CollectSeal
    \/ SaveManifest
    \/ CreateArchiveBegin
    \/ CreateArchive
    \/ CreateArchiveFails
    \/ SaveBackupBegin
    \/ InsufficientSpace
    \/ SaveBackup
    \/ SaveBackupFails
    \/ InterruptBackup

RestoreFrame == RunFrame /\ UNCHANGED backupVars

InRestore == {"extract", "load", "packages", "config"}

LeaveRestore(outcome, why) ==
    /\ rpc' = outcome
    /\ rfailure' = why
    /\ rtemp' = TempOnExit(rtemp, outcome)
    /\ extracted' = IF rtemp' = "removed" THEN EmptyWork ELSE extracted

\* between the backup and the restore the backup file is damaged: made
\* unreadable as a tar, or its manifest.json removed or garbled
DamageBackup(how) ==
    /\ bpc \in Ended
    /\ rpc = "init"
    /\ dest.state = "complete"
    /\ dest.content.manifest.state = "written"
    /\ dest' = CASE how = "corrupt" -> [dest EXCEPT !.state = "corrupt"]
                 [] how = "no_manifest" ->
                      [dest EXCEPT !.content.manifest =
                                      [state |-> "unwritten", data |-> <<>>]]
                 [] how = "bad_manifest" ->
                      [dest EXCEPT !.content.manifest =
                                      [state |-> "malformed", data |-> <<>>]]
    /\ UNCHANGED <<opts, config_exists, src, bpc, failure, temp, metadata, work, col,
                   archive>>
    /\ UNCHANGED restoreVars
    /\ RunFrame

\* execute: the backup file does not exist (whatever the options)
BackupFileMissing ==
    /\ bpc \in Ended
    /\ rpc = "init"
    /\ dest.state = "absent"
    /\ LeaveRestore("raised", "missing")
    /\ UNCHANGED <<ropts, rmeta, target, perm_calls, pkg_cmds, rstats>>
    /\ RestoreFrame

\* execute: the temporary directory is created; the home directory restored
\* into is that of a new machine, or still holds the files backed up
EnterRestore(o, fresh) ==
    /\ bpc \in Ended
    /\ rpc = "init"
    /\ dest.state # "absent"
    /\ ropts' = o
    /\ rpc' = "extract"
    /\ rtemp' = "exists"
    /\ target' = IF fresh THEN {} ELSE {f \in SrcFiles : src[f] # "absent"}
    /\ UNCHANGED <<extracted, rmeta, perm_calls, pkg_cmds, rfailure, rstats>>
    /\ RestoreFrame

\* _extract_backup
ExtractBackup ==
    /\ rpc = "extract"
    /\ dest.state = "complete"
    /\ rpc' = "load"
    /\ extracted' = dest.content
    /\ UNCHANGED <<ropts, rtemp, rmeta, target, perm_calls, pkg_cmds, rfailure, rstats>>
    /\ RestoreFrame

\* _extract_backup of a truncated or unreadable file: "Failed to extract
\* backup"
ExtractBackupFails ==
    /\ rpc = "extract"
    /\ dest.state \in {"partial", "corrupt"}
    /\ LeaveRestore("raised", "extract")
    /\ UNCHANGED <<ropts, rmeta, target, perm_calls, pkg_cmds, rstats>>
    /\ RestoreFrame

\* a loader that goes on to the restore phases whatever it read
LoadManifestLenient ==
    /\ rpc = "load"
    /\ rmeta' = IF extracted.manifest.state = "unwritten"
                THEN [status |-> "FileNotFoundError", manifest |-> "none"]
                ELSE LoadMetadata(extracted.manifest)
    /\ rpc' = "packages"
    /\ UNCHANGED <<rtemp, extracted, rfailure>>
    /\ UNCHANGED <<ropts, target, perm_calls, pkg_cmds, rstats>>
    /\ RestoreFrame

\* load_metadata(temp_path / "manifest.json")
LoadManifest ==
    /\ rpc = "load"
    /\ rmeta' = IF extracted.manifest.state = "unwritten"
                THEN [status |-> "FileNotFoundError", manifest |-> "none"]
                ELSE LoadMetadata(extracted.manifest)
    /\ IF rmeta'.status = "ok"
       THEN rpc' = "packages" /\ UNCHANGED <<rtemp, extracted, rfailure>>
       ELSE LeaveRestore("raised", "manifest")
    /\ UNCHANGED <<ropts, target, perm_calls, pkg_cmds, rstats>>
    /\ RestoreFrame

\* the package phase without work: config_only or data_only, or no
\* packages directory in the backup
RestorePackagesNothing ==
    /\ rpc = "packages"
    /\ ropts.config_only \/ ropts.data_only \/ ~extracted.packages
    /\ rpc' = "config"
    /\ rstats' = [rstats EXCEPT
                     !.packages = IF ropts.config_only \/ ropts.data_only
                                  THEN "skipped" ELSE "no packages"]
    /\ UNCHANGED <<ropts, rtemp, extracted, rmeta, target, perm_calls, pkg_cmds,
                   rfailure>>
    /\ RestoreFrame

\* _restore_packages: PackageRestorer.restore, the commands going as given;
\* an exception it does not swallow ends execute()
RestorePackages(sy, s, aur) ==
    /\ rpc = "packages"
    /\ ~ropts.config_only /\ ~ropts.data_only /\ extracted.packages
    /\ (sy = "missing") <=> (s = "missing")
    /\ LET r == PackageRestore(ropts.dry_run, sy, s, aur)
       IN  /\ pkg_cmds' = r.cmds
           /\ IF r.raised
              THEN /\ LeaveRestore("raised", "packages")
                   /\ UNCHANGED rstats
              ELSE /\ rpc' = "config"
                   /\ rstats' = [rstats EXCEPT !.packages = "restored",
                                               !.official_installed = r.official,
                                               !.aur_installed = r.aur]
                   /\ UNCHANGED <<rtemp, extracted, rfailure>>
    /\ UNCHANGED <<ropts, rmeta, target, perm_calls>>
    /\ RestoreFrame

\* a config phase that packages_only does not switch off
RestoreConfigIgnoringPackagesOnly ==
    /\ rpc = "config"
    /\ IF ropts.data_only \/ ~extracted.user_config
       THEN /\ UNCHANGED <<target, perm_calls>>
            /\ rstats' = [rstats EXCEPT
                             !.config = IF ropts.data_only
                                        THEN "skipped" ELSE "no config"]
       ELSE LET r == ConfigRestore(extracted, target,
                                   {f \in target \cap SrcFiles : src[f] = "link"},
                                   ropts.dry_run)
            IN  /\ target' = r.target
                /\ perm_calls' = r.perm_calls
                /\ rstats' = [rstats EXCEPT !.config = "restored",
                                            !.files_restored = r.files_restored]
    /\ LeaveRestore("returned", "none")
    /\ UNCHANGED <<ropts, rmeta, pkg_cmds>>
    /\ RestoreFrame

\* the config phase: _restore_config unless packages_only or data_only;
\* execute() returns
RestoreConfig ==
    /\ rpc = "config"
    /\ IF ropts.packages_only \/ ropts.data_only \/ ~extracted.user_config
       THEN /\ UNCHANGED <<target, perm_calls>>
            /\ rstats' = [rstats EXCEPT
                             !.config = IF ropts.packages_only \/ ropts.data_only
                                        THEN "skipped" ELSE "no config"]
       ELSE LET r == ConfigRestore(extracted, target,
                                   {f \in target \cap SrcFiles : src[f] = "link"},
                                   ropts.dry_run)
            IN  /\ target' = r.target
                /\ perm_calls' = r.perm_calls
                /\ rstats' = [rstats EXCEPT !.config = "restored",
                                            !.files_restored = r.files_restored]
    /\ LeaveRestore("returned", "none")
    /\ UNCHANGED <<ropts, rmeta, pkg_cmds>>
    /\ RestoreFrame

\* KeyboardInterrupt anywhere inside the `with` block
InterruptRestore ==
    /\ rpc \in InRestore
    /\ LeaveRestore("interrupted", "interrupt")
    /\ UNCHANGED <<ropts, rmeta, target, perm_calls, pkg_cmds, rstats>>
    /\ RestoreFrame

RestoreNext ==
    \/ \E how \in {"corrupt", "no_manifest", "bad_manifest"} : DamageBackup(how)
    \/ BackupFileMissing
    \/ \E o \in RestoreOptions, fresh \in BOOLEAN : EnterRestore(o, fresh)
    \/ ExtractBackup
    \/ ExtractBackupFails
    \/ LoadManifest
    \/ RestorePackagesNothing
    \/ \E sy, s, aur \in CmdOutcomes : RestorePackages(sy, s, aur)
    \/ RestoreConfig
    \/ InterruptRestore

RunNext == BackupNext \/ RestoreNext

RunSpec == RunInit /\ [][RunNext]_vars

(***************************************************************************)
(* The destination directory as a state machine: it holds any *.bread      *)
(* entries, and cleanup_old_backups is called once.                        *)
(***************************************************************************)
StoreInit ==
    /\ MatcherIdle
    /\ VerifyIdle
    /\ PermIdle
    /\ ManifestIdle
    /\ RunIdle
    /\ bdir \in [BackupNames -> Entries \cup {NoEntry}]
    /\ bcall = NoCleanup

CallCleanupOldBackups(keep, fails) ==
    /\ bcall.state = "none"
    /\ fails \subseteq {n \in BackupNames : bdir[n].present /\ bdir[n].statable}
    /\ \E backups \in ListBackups(bdir) :
          LET r == CleanupOldBackups(bdir, keep, backups, fails)
              old == ToDelete(backups, keep)
          IN  /\ bdir' = r.dir
              /\ bcall' = [state |-> "returned", keep_count |-> keep, before |-> bdir,
                           failed |-> fails \cap {old[k] : k \in DOMAIN old},
                           deleted |-> r.deleted]
    /\ UNCHANGED <<matcherVars, verifyVars, permVars, manifestVars, runVars>>

StoreNext == \E keep \in 0..MaxKeep, fails \in SUBSET BackupNames :
                CallCleanupOldBackups(keep, fails)

StoreSpec == StoreInit /\ [][StoreNext]_vars

(***************************************************************************)
(* Claims about the matcher (checked under MatcherSpec)                    *)
(***************************************************************************)
\* the rules of `patterns` that match the (normalised) queried path
MatchingRules ==
    {k \in 1..Len(patterns) : Search(patterns[k].regex, NormalizePath(path))}

LastMatching == CHOOSE k \in MatchingRules : \A j \in MatchingRules : j <= k

\* C1: should_exclude returns the verdict of the last rule that matches the
\* path (true for a plain rule, false for a negated one) and false when no rule
\* matches; ["*.log", "!keep.log"] excludes app.log and includes keep.log, and
\* the reversed list excludes both.
C1_LastMatchWins ==
    answered =>
        /\ excluded = (MatchingRules # {} /\ ~patterns[LastMatching].is_negation)
        /\ (given = <<P_StarLog, P_NotKeepLog>> /\ path = F_AppLog => excluded)
        /\ (given = <<P_StarLog, P_NotKeepLog>> /\ path = F_KeepLog => ~excluded)
        /\ (given = <<P_NotKeepLog, P_StarLog>> /\ path \in {F_AppLog, F_KeepLog}
                => excluded)

\* a query of keep.log against ["*.log", "!keep.log"]: both rules match and
\* the later, negated one decides
C1_Witness ==
    /\ answered
    /\ given = <<P_StarLog, P_NotKeepLog>>
    /\ path = F_KeepLog
    /\ Cardinality(MatchingRules) = 2
    /\ ~excluded

\* C2: the matcher compiled from ["**/cache/*"] excludes a/b/cache/x and
\* cache/x and does not exclude cache itself.
C2_DoubleStarSlashPrefix ==
    (answered /\ given = <<P_CacheAll>>) =>
        /\ (path \in {F_DeepCacheX, F_CacheX} => excluded)
        /\ (path = F_Cache => ~excluded)

(***************************************************************************)
(* Claims about verification (checked under VerifySpec)                    *)
(***************************************************************************)
\* entry k of the manifest names a file that exists and hashes to its sum
EntryGood(k) ==
    /\ tree[checksums[k].file] \in Contents
    /\ Sha256(tree[checksums[k].file]) = checksums[k].sum

BadEntries == {k \in 1..Len(checksums) : ~EntryGood(k)}

FirstBad == CHOOSE k \in BadEntries : \A j \in BadEntries : k <= j

\* C4: verify() returns false, without raising, for a backup in which a
\* payload file no longer matches its recorded checksum (modified or deleted
\* after the backup was written), and true for an untouched backup.
C4_VerifyDetectsMismatch ==
    (vcall.op = "verify" /\ container = "ok" /\ manifest_member = "ok") =>
        /\ (BadEntries # {} => vcall.result = "False")
        /\ (BadEntries = {} => vcall.result = "True")

\* C5: verify_checksums returns true exactly when every listed file exists
\* and hashes to the recorded value; it returns false at the first listed
\* file that is missing or differs, without looking at later entries; it
\* returns true for an empty mapping.
C5_VerifyChecksums ==
    vcall.op = "verify_checksums" =>
        /\ (vcall.result = "True") <=> (BadEntries = {})
        /\ (checksums = <<>> => vcall.result = "True")
        /\ (BadEntries # {} /\ tree[checksums[FirstBad].file] # "dir")
              => /\ vcall.result = "False"
                 /\ vcall.hashed =
                       [k \in 1..(IF tree[checksums[FirstBad].file] = "absent"
                                  THEN FirstBad - 1 ELSE FirstBad)
                          |-> checksums[k].file]

\* a verification that stopped at a missing first entry and a later one
\* that passed over a good entry and stopped at a modified one
C5_Witness ==
    /\ vcall.op = "verify_checksums"
    /\ vcall.result = "False"
    /\ Len(checksums) = 2
    /\ \/ FirstBad = 1 /\ tree[checksums[1].file] = "absent" /\ vcall.hashed = <<>>
       \/ FirstBad = 2 /\ tree[checksums[2].file] = Modified /\ Len(vcall.hashed) = 2

(***************************************************************************)
(* Claims about restore_permissions (checked under PermSpec)               *)
(***************************************************************************)
\* C9: for a non-symlink entry, whichever of chown, chmod and utime fails
\* with an OS-level error, the remaining steps are still attempted and the
\* call does not raise.
C9_StepsIndependentlyBestEffort ==
    (pres # "none" /\ ~pmeta.is_symlink) =>
        /\ pres = "returned"
        /\ syscalls = <<"chown", "chmod", "utime">>

(***************************************************************************)
(* Claims about the manifest record (checked under ManifestSpec)           *)
(***************************************************************************)
\* C10: loading a manifest whose record carries additional unknown
\* top-level fields succeeds and yields the known fields intact.
C10_UnknownFieldsTolerated ==
    (/\ mloaded.status # "none"
     /\ FieldNames \subseteq DOMAIN mrecord.data
     /\ DOMAIN mrecord.data # FieldNames) =>
        /\ mloaded.status = "ok"
        /\ \A k \in FieldNames : mloaded.manifest[k] = mrecord.data[k]

C3_RoundTrip ==
    (/\ bpc = "returned" /\ opts.include_config
     /\ rpc = "returned"
     /\ ~ropts.dry_run /\ ~ropts.packages_only /\ ~ropts.data_only)
    => /\ \A k \in 1..Len(col.files_to_backup) : col.files_to_backup[k] \in target
       /\ \A rel \in Keys(dest.content.permissions) : Join(Home, rel) \in perm_calls

\* C6: whenever the destination directory exists it holds no partially
\* written backup file.
C6_NoPartialFileAtDestination == dest.dir => dest.state # "partial"

\* C7: however execute() of the backup or of the restore ends (return,
\* exception, interrupt), its temporary working directory does not exist
\* afterwards.
C7_TempRemovedOnEveryExit ==
    /\ bpc \in Ended => temp # "exists"
    /\ rpc \in Ended => rtemp # "exists"

\* a backup that raised while copying to the destination, then a restore of
\* the file it left that was interrupted: both directories were created and
\* are gone
C7_Witness ==
    /\ bpc = "raised" /\ failure = "save_backup" /\ temp = "removed"
    /\ rpc = "interrupted" /\ rtemp = "removed"

\* C8: a file whose stat, copy or permission capture fails never makes
\* collect raise; when collect has returned, the file is not in the staged
\* set and skipped_files counts it along with the excluded files.
C8_AccessErrorsSkippedAndCounted ==
    /\ failure # "config_copy"
    /\ (bpc = "save_metadata" /\ col.returned /\ config_exists)
       => LET rules == CollectorMatcher(metadata.exclude_patterns)
              seen == Visited(src, rules)
              out == {f \in seen : ShouldExclude(rules, RelPath(f))}
              faulty == {f \in seen \ out : src[f] \in Faults}
          IN  /\ \A f \in faulty : [name |-> Join(ConfigDirName, RelPath(f)),
                                    kind |-> "file"] \notin work.tar
              /\ col.skipped_count = Cardinality(out) + Cardinality(faulty)

\* C12: from the moment manifest.json is written in the working directory
\* the run's metadata equals what was written, and the manifest inside the
\* backup file of a run that returned equals the run's final metadata,
\* checksums included.
C12_ManifestImmutableOnceWritten ==
    /\ (temp = "exists" /\ work.manifest.state = "written")
       => work.manifest.data = ToDict(metadata)
    /\ bpc = "returned" => dest.content.manifest.data = ToDict(metadata)

\* C13: when the collection or the restoration of a component fails, the
\* run ends raised (never returned), no later phase has run, and after a
\* failed backup the destination holds no backup file.
C13_ComponentFailureAborts ==
    /\ failure \in {"packages", "config_copy"}
       => bpc = "raised" /\ dest.state = "absent"
    /\ (/\ rstats.packages = "restored"
        /\ ~ropts.dry_run
        /\ rstats.official_installed < Len(OfficialPackages))
       => /\ rpc # "returned"
          /\ rstats.files_restored = NoStats.files_restored

\* C14: a run ended by the disk-space check has raised, has not copied
\* anything to the destination, and the destination holds no backup file.
C14_InsufficientSpaceWritesNothing ==
    failure = "disk_space"
    => /\ bpc = "raised"
       /\ dest.state = "absent"
       /\ dest.content = EmptyWork

\* the archive was complete and the check failed
C14_Witness ==
    /\ failure = "disk_space"
    /\ archive.state = "complete"
    /\ temp = "removed"

\* the backup file is unreadable as a container, or its manifest is missing
\* or undecodable
Damaged ==
    /\ dest.state # "absent"
    /\ \/ dest.state \in {"partial", "corrupt"}
       \/ dest.content.manifest.state # "written"

\* C15: a restore of a damaged backup file never gets past loading the
\* manifest: it raises, no package-manager command has run, nothing was
\* extracted into the home directory and no permission was applied.
C15_CorruptArchiveAbortsBeforeRestore ==
    (Damaged /\ rpc # "init")
    => /\ rpc \in {"extract", "load", "raised", "interrupted"}
       /\ rpc = "raised" => rfailure \in {"extract", "manifest"}
       /\ pkg_cmds = <<>>
       /\ perm_calls = {}
       /\ target \subseteq SrcFiles
       /\ rstats = NoStats

\* a backup with packages and configuration whose manifest was damaged: the
\* restore raised at load_metadata
C15_Witness ==
    /\ rpc = "raised" /\ rfailure = "manifest"
    /\ dest.content.packages /\ dest.content.has_tar
    /\ ~ropts.dry_run /\ ~ropts.config_only /\ ~ropts.data_only

\* C16: a dry-run restore leaves the home directory as it was, applies no
\* permissions and runs no database update or install command; what it
\* returns are the counts of what a restore would handle.
C16_DryRunNonMutating ==
    (ropts.dry_run /\ rpc # "init")
    => /\ target \subseteq SrcFiles
       /\ perm_calls = {}
       /\ \A i \in DOMAIN pkg_cmds :
             pkg_cmds[i] \notin {"pacman -Sy", "pacman -S", "yay -S"}
       /\ rstats.packages = "restored"
          => rstats.official_installed = Len(OfficialPackages)
       /\ rstats.files_restored # NoStats.files_restored
          => rstats.files_restored = Cardinality(dest.content.tar)

\* a dry run over a backup with packages and configuration files returned
C16_Witness ==
    /\ ropts.dry_run /\ rpc = "returned"
    /\ rstats.packages = "restored"
    /\ rstats.files_restored > 0

(***************************************************************************)
(* Claims about the glob forms (checked under GlobSpec)                    *)
(***************************************************************************)
\* the part of a path after its last "/"
LastSegment(p) ==
    LET cuts == {j \in 1..Len(p) : p[j] = "/"}
        last == IF cuts = {} THEN 0 ELSE CHOOSE j \in cuts : \A k \in cuts : k <= j
    IN  SubSeq(p, last + 1, Len(p))

\* the positions of a path where a segment starts
SegmentStarts(p) == {1} \cup {j + 1 : j \in {k \in 1..Len(p) : p[k] = "/"}}

\* the word w stands in p from position i on
OccursAt(p, w, i) == i + Len(w) - 1 <= Len(p) /\ SubSeq(p, i, i + Len(w) - 1) = w

\* C17: with the single pattern "node_modules/", should_exclude is true for
\* the directory itself, for a path directly beneath it and for a path
\* beneath a nested one.
C17_TrailingSlashMatchesDirectory ==
    (given = <<G_NodeModulesDir>> /\ answered
     /\ path \in {Q_NodeModules, Q_NodeModulesX, Q_DeepNodeModules})
    => excluded

\* C18: with the single pattern "a**b", should_exclude is true for "ab",
\* "a/b" and "a/x/y/b".
C18_DoubleStarCrossesSegments ==
    (given = <<G_AStarStarB>> /\ answered /\ path \in {Q_AB, Q_ASlashB, Q_ADeepB})
    => excluded

\* C19: with the single pattern "a*b" a path is excluded exactly when its
\* last segment starts with "a" and ends with a later "b" (so "*" never
\* stands for a "/"); with the single pattern "a?b" exactly when its last
\* segment is "a", one character, "b".
C19_StarAndQuestionStayInSegment ==
    answered =>
        LET seg == LastSegment(path)
        IN  /\ given = <<G_AStarB>>
               => (excluded <=> (Len(seg) >= 2 /\ seg[1] = "a" /\ seg[Len(seg)] = "b"))
            /\ given = <<G_AQB>>
               => (excluded <=> (Len(seg) = 3 /\ seg[1] = "a" /\ seg[3] = "b"))

\* "a*b" was asked about "a/b" and did not exclude it
C19_Witness ==
    given = <<G_AStarB>> /\ answered /\ path = Q_ASlashB /\ ~excluded

\* C20: the single pattern "/foo" excludes "foo" and only paths that start
\* with "foo"; the single pattern "foo" excludes "foo" and "a/foo" and only
\* paths in which "foo" stands at the start of a segment.
C20_Anchoring ==
    answered =>
        /\ given = <<G_RootFoo>>
           => /\ path = Q_Foo => excluded
              /\ excluded => OccursAt(path, Q_Foo, 1)
        /\ given = <<G_Foo>>
           => /\ path \in {Q_Foo, Q_SubFoo} => excluded
              /\ excluded => \E i \in SegmentStarts(path) : OccursAt(path, Q_Foo, i)

\* "foo" was asked about "afoo" and did not exclude it
C20_Witness ==
    given = <<G_Foo>> /\ answered /\ path = Q_AFoo /\ ~excluded

C22_CaptureRestoreRoundTrip ==
    (pres # "none" /\ ~porig.is_symlink /\ pouts = <<"ok", "ok", "ok">>)
    => /\ pres = "returned"
       /\ pfile.mode = porig.mode
       /\ pfile.uid = porig.uid
       /\ pfile.gid = porig.gid
       /\ pfile.mtime = porig.mtime

\* a regular file's record went through the dictionary form and was restored
C22_Witness ==
    /\ pres = "returned" /\ ~porig.is_symlink /\ pvia
    /\ pouts = <<"ok", "ok", "ok">>
    /\ pfile.mode = porig.mode /\ pfile.mode # FreshFile.mode

C24_StagedExactlyTheSurvivingFiles ==
    (bpc = "save_metadata" /\ opts.include_config /\ config_exists)
    => LET rules == CollectorMatcher(metadata.exclude_patterns)
           expect == {f \in Visited(src, rules) :
                         /\ ~ShouldExclude(rules, RelPath(f))
                         /\ src[f] # "stat_fails"}
       IN  /\ {m \in work.tar : m.kind # "dir"}
              = {[name |-> Join(ConfigDirName, RelPath(f)),
                  kind |-> IF src[f] = "link" THEN "link" ELSE "file"] : f \in expect}
           /\ \E c \in metadata.components :
                 /\ c[1] = "user_config"
                 /\ <<"total_files", Cardinality(expect)>> \in c[2]
           /\ (\A f \in expect : src[f] # "capture_fails")
              => /\ Keys(work.permissions) = {RelPath(f) : f \in expect}
                 /\ Cardinality(work.permissions) = Cardinality(expect)

\* collect returned with one file excluded by the exclude file, one whose
\* stat failed and one staged
C24_Witness ==
    /\ bpc = "save_metadata" /\ opts.include_config /\ config_exists
    /\ opts.exclude_lines # <<>>
    /\ src[S_AXLog] = "ok"
    /\ src[S_G] = "stat_fails"
    /\ src[S_AF] = "ok"
    /\ col.files_to_backup = <<S_AF>>

\* C25: manifest.json is written only when every enabled component's
\* collection has returned and its summary is in the metadata; the
\* component's tar exists only when every file kept by the scan has been
\* copied; the archive is created only after the manifest is written.
C25_OrderOfABackupRun ==
    /\ (temp = "exists" /\ work.manifest.state = "written")
       => /\ opts.include_packages
             => /\ work.packages
                /\ "packages" \in Keys(work.manifest.data.components)
          /\ opts.include_config
             => /\ col.returned
                /\ "user_config" \in Keys(work.manifest.data.components)
    /\ work.has_tar
       => /\ col.copied = Len(col.files_to_backup)
          /\ \A k \in 1..Len(col.files_to_backup) :
                \E m \in work.tar :
                   m.name = Join(ConfigDirName, RelPath(col.files_to_backup[k]))
    /\ (temp = "exists" /\ archive.state # "absent") => work.manifest.state = "written"
    /\ archive.state = "complete" => archive.content.manifest.state = "written"
    /\ dest.state # "absent" => archive.state = "complete"

\* a backup of both components with at least two configuration files
\* returned
C25_Witness ==
    /\ bpc = "returned"
    /\ opts.include_packages /\ opts.include_config
    /\ Len(col.files_to_backup) >= 2
    /\ dest.content.manifest.state = "written"

\* C26: after a config restore that is not a dry run, restore_permissions
\* has been called for exactly the sidecar entries whose path is present
\* below the home directory, a symbolic link without a target included.
C26_PermissionsForEveryPresentEntry ==
    (rpc = "returned" /\ rstats.config = "restored" /\ ~ropts.dry_run)
    => perm_calls = {Join(Home, k) : k \in {j \in Keys(dest.content.permissions) :
                                              Join(Home, j) \in target}}

\* C29: when execute() of the backup has ended (returned, raised or
\* interrupted) the intermediate archive does not exist any more.
C29_IntermediateArchiveRemoved == bpc \in Ended => archive.state = "absent"

\* C30: the package phase runs exactly when neither config_only nor
\* data_only is set, the config phase exactly when neither packages_only
\* nor data_only is set, the package phase before the config phase;
\* packages_only leaves the home directory as it was and config_only runs
\* no package command.
C30_PhaseSelection ==
    /\ rstats.packages # "none"
       => ((rstats.packages # "skipped") <=> (~ropts.config_only /\ ~ropts.data_only))
    /\ rstats.config # "none"
       => ((rstats.config # "skipped") <=> (~ropts.packages_only /\ ~ropts.data_only))
    /\ rstats.config # "none" => rstats.packages # "none"
    /\ rpc = "returned" => rstats.packages # "none" /\ rstats.config # "none"
    /\ ropts.packages_only => target \subseteq SrcFiles /\ perm_calls = {}
    /\ ropts.config_only => pkg_cmds = <<>>

\* a packages_only restore of a backup holding both components installed
\* the packages and skipped the config phase
C30_Witness ==
    /\ rpc = "returned"
    /\ ropts.packages_only /\ ~ropts.config_only /\ ~ropts.data_only /\ ~ropts.dry_run
    /\ dest.content.has_tar
    /\ rstats.packages = "restored"
    /\ rstats.config = "skipped"
    /\ pkg_cmds # <<>>

(***************************************************************************)
(* The matcher the collector builds (checked under MatcherSpec)            *)
(***************************************************************************)
\* C28: for the lines of an exclude file and a path, the matcher the
\* collector builds from its defaults and the orchestrator's
\* exclude_patterns answers should_exclude as the matcher built from the
\* defaults followed by those lines does.
C28_CollectorMatcherEquivalent ==
    answered
    => ShouldExclude(CollectorMatcher(OrchestratorExcludePatterns(given)), path)
       = ShouldExclude(NewMatcher(DEFAULT_EXCLUDE_PATTERNS \o given), path)

(***************************************************************************)
(* Claims about the retention of backups (checked under StoreSpec)         *)
(***************************************************************************)
\* the names cleanup_old_backups returned
DeletedNames == {bcall.deleted[k] : k \in DOMAIN bcall.deleted}

\* the entries list_backups listed for the call
ListedBefore == {n \in BackupNames : bcall.before[n].present /\ bcall.before[n].statable}

\* every deleted backup has at least keep_count other listed backups that
\* are as recent or more recent, and the returned list names, once each,
\* exactly the entries that are gone
DeletedOnlyOldAndReported ==
    /\ \A d \in DeletedNames :
          /\ d \in ListedBefore
          /\ Cardinality({n \in ListedBefore \ {d} :
                             bcall.before[n].mtime >= bcall.before[d].mtime})
             >= bcall.keep_count
    /\ DeletedNames = {n \in BackupNames : bcall.before[n].present /\ ~bdir[n].present}
    /\ Cardinality(DeletedNames) = Len(bcall.deleted)
    /\ \A n \in BackupNames \ DeletedNames : bdir[n] = bcall.before[n]

\* C27 (amended): cleanup_old_backups(keep_count >= 0) deletes only
\* backups that are not among the keep_count most recent by mtime, the
\* list it returns names exactly the deleted ones, and when every deletion
\* succeeded at most keep_count of the entries whose stat succeeds remain.
C27_CleanupKeepsMostRecent ==
    bcall.state = "returned"
    => /\ DeletedOnlyOldAndReported
       /\ bcall.failed = {}
          => Cardinality({n \in BackupNames : bdir[n].present /\ bdir[n].statable})
             <= bcall.keep_count

\* three backups of different age, keep_count 1: the two older ones were
\* deleted and the most recent one is left
C27_Witness ==
    /\ bcall.state = "returned"
    /\ bcall.keep_count = 1
    /\ bcall.failed = {}
    /\ Cardinality(ListedBefore) = 3
    /\ \A m, n \in ListedBefore : m # n => bcall.before[m].mtime # bcall.before[n].mtime
    /\ Len(bcall.deleted) = 2
    /\ \E n \in BackupNames : bdir[n].present /\ bdir[n].mtime = MaxMtime

\* C27 as stated: as above, and when every deletion succeeded at most
\* keep_count .bread entries remain in the destination directory.
C27_AtMostKeepCountRemain ==
    bcall.state = "returned"
    => /\ DeletedOnlyOldAndReported
       /\ bcall.failed = {}
          => Cardinality({n \in BackupNames : bdir[n].present}) <= bcall.keep_count

====
